---- MODULE Spec2Model ----
(***************************************************************************)
(* Model of stretchy-ts (src/src/index.ts): the sizing operation resize,   *)
(* the eligibility predicate resizes, the batch operation resizeAll, the   *)
(* global active flag, the input/change handler, the mutation observer     *)
(* and the bootstrap passes.                                               *)
(*                                                                         *)
(* The document holds one form control, "el", whose attributes, computed   *)
(* style and layout are drawn in Init and then fixed; its value, selected  *)
(* index, inline width/height and attachment change.  Lengths are whole    *)
(* pixels.  A style value is a pair <<unit, number>>: <<"px", 240>> is     *)
(* "240px", <<"ch", 7>> is "7ch", <<"calc", 30>> is                        *)
(* "calc(30px + var(--arrow-width, 2.1em))", and <<"", 0>> is unset.       *)
(***************************************************************************)
EXTENDS Integers, Sequences, FiniteSets, TLC

VARIABLES
    ctl,            \* attributes, computed style and layout of the control
    value,          \* element.value
    selectedIndex,  \* element.selectedIndex
    width,          \* element.style.width
    height,         \* element.style.height
    doc,            \* the nodes attached to the document
    filter,         \* selectors.filter
    active,         \* the global active flag
    observer,       \* TRUE once the MutationObserver is installed
    listening,      \* TRUE once onChange listens for input/change on the root
    phase,          \* bootstrap position
    ctx,            \* measurement context of the last call of resize
    last            \* the operation that produced this state

vars == <<ctl, value, selectedIndex, width, height, doc, filter, active,
          observer, listening, phase, ctx, last>>

----------------------------------------------------------------------------
(* Style values *)

Unset == <<"", 0>>
Px(n) == <<"px", n>>
Ch(n) == <<"ch", n>>
Calc(w) == <<"calc", w[2]>>
parseFloat(s) == s[2]

Max(a, b) == IF a >= b THEN a ELSE b
Min(a, b) == IF a <= b THEN a ELSE b

----------------------------------------------------------------------------
(* Host layout: what the rendering engine reports for the control *)

CharW == 8
LineH == 16

\* scrollHeight of a text area read while its height is 0
scrollHeight(c, text) == c.shEmpty + LineH * Len(text)

\* offsetWidth of an input read while its width is 1000px
offsetWidthAt1000(c) == IF c.rendered THEN 1000 ELSE 0

\* scrollWidth - clientWidth of an input read while its width is 0
overflowAt0(c, text) == Max(0, CharW * Len(text) - c.under)

\* scrollLeft read back after it was forced to 1e10, at inline width w
scrollLeftAt(c, text, w) ==
    Min(c.step, Max(0, c.deco + CharW * Len(text) - w))

\* offsetWidth of the probe element that carries the option's text
probeOffsetWidth(c, text) == IF c.rendered THEN CharW * Len(text) ELSE 0

----------------------------------------------------------------------------
(* Selectors *)

TextTypes == {"text", "number", "url", "email", "tel"}

MatchesBase(c) ==
    \/ c.nodeName = "textarea"
    \/ c.nodeName = "select" /\ ~c.hasSize
    \/ c.nodeName = "input" /\ c.type = ""
    \/ c.nodeName = "input" /\ c.type \in TextTypes

Matches(c, sel) == sel = "*" \/ sel = c.cls

resizesNoParent(c, d, f) == MatchesBase(c) /\ Matches(c, f)

resizes(c, d, f) == "el" \in d /\ MatchesBase(c) /\ Matches(c, f)

isElementWithPlaceholder(c) == c.nodeName \in {"textarea", "input"}
isTextArea(c) == c.nodeName = "textarea"
isInput(c) == c.nodeName = "input"
isSelect(c) == c.nodeName = "select"

----------------------------------------------------------------------------
(* resize, lines 29-142 *)

\* the value measured: the placeholder stands in for an empty value
substituted(c, v) == isElementWithPlaceholder(c) /\ v = "" /\ c.placeholder # ""
measuredText(c, v) == IF substituted(c, v) THEN c.placeholder ELSE v

\* the "is empty" flag when the sizing branches are done
isEmpty(c, v) == IF substituted(c, v) THEN TRUE ELSE TRUE

restoreValueNever(c, flag, text) == text

\* the value left on the control when resize returns
restoreValue(c, flag, text) ==
    IF isElementWithPlaceholder(c) /\ flag THEN "" ELSE text

textAreaOffsetKeepsPadding(c) ==
    IF c.boxSizing = "border-box" THEN c.offsetHeight0
    ELSE IF c.boxSizing = "content-box"
         THEN (0 - c.clientHeight0) + parseFloat(c.minHeight)
         ELSE 0

textAreaOffset(c) ==
    IF c.boxSizing = "border-box"
    THEN c.offsetHeight0 - parseFloat(c.paddingTop) - parseFloat(c.paddingBottom)
    ELSE IF c.boxSizing = "content-box"
         THEN (0 - c.clientHeight0) + parseFloat(c.minHeight)
         ELSE 0

inputOffset(c) ==
    IF c.boxSizing = "border-box" THEN c.offsetWidth0
    ELSE IF c.boxSizing = "padding-box" THEN c.clientWidth0
    ELSE IF c.boxSizing = "content-box" THEN parseFloat(c.minWidth)
    ELSE 0

MaxIterations == 10

RECURSIVE correctUncapped(_, _, _, _)
correctUncapped(c, text, i, w) ==
    IF scrollLeftAt(c, text, w) # 0
    THEN correctUncapped(c, text, i + 1, w + scrollLeftAt(c, text, w))
    ELSE [width |-> w, rounds |-> i]

\* the overflow-correction loop from round i on: the final width and the
\* number of rounds that widened the control
RECURSIVE correct(_, _, _, _)
correct(c, text, i, w) ==
    IF i < MaxIterations /\ scrollLeftAt(c, text, w) # 0
    THEN correct(c, text, i + 1, w + scrollLeftAt(c, text, w))
    ELSE [width |-> w, rounds |-> i]

invisibleWidthNoSlack(text) == Ch(Len(text))

invisibleWidth(text) == Ch(Len(text) + 1)

\* the probe element of the Selection branch
Probe == "_"
insertProbe(d) == d \cup {Probe}

removeProbeForgotten(d) == d

removeProbe(d) == d \ {Probe}

\* Computed style of a Selection control: its enumerable string-valued
\* properties, in enumeration order, as <<name, value>> pairs
Undefined == "undefined"
AppearanceNames == {"appearance", "webkitAppearance", "MozAppearance"}
ExcludedNames == {"width", "webkitLogicalWidth", "length"}

csGet(cs, name) ==
    IF \E k \in 1..Len(cs) : cs[k][1] = name
    THEN cs[CHOOSE k \in 1..Len(cs) : cs[k][1] = name][2]
    ELSE Undefined

\* the name of the appearance property after the copy loop over cs[1..n]
RECURSIVE appearanceName(_, _)
appearanceName(cs, n) ==
    IF n = 0 THEN "appearance"
    ELSE IF cs[n][1] \notin ExcludedNames /\ cs[n][1] \in AppearanceNames
         THEN cs[n][1]
         ELSE appearanceName(cs, n - 1)

arrowOnlyWhenPresent(v) == v # Undefined /\ v # "" /\ v # "none"

\* !cs[appearance] || cs[appearance] !== "none"
accountForArrow(v) == (v = Undefined \/ v = "") \/ v # "none"

\* the measurement context when resize was not called
NoCtx ==
    [ran |-> FALSE, branch |-> "none", again |-> FALSE,
     vBefore |-> "", wBefore |-> Unset, hBefore |-> Unset, docBefore |-> {},
     text |-> "", offset |-> 0, measured |-> 0, rounds |-> 0,
     appearance |-> Undefined]

ctxOf(st, branch) ==
    [NoCtx EXCEPT !.ran = TRUE, !.branch = branch, !.vBefore = st.value,
                  !.wBefore = st.width, !.hBefore = st.height,
                  !.docBefore = st.doc]

resizeTextArea(c, st, text) ==
    LET offset == textAreaOffset(c)
        sh == scrollHeight(c, text)
    IN  [st EXCEPT !.height = Px(sh + offset),
                   !.value = restoreValue(c, isEmpty(c, st.value), text),
                   !.ctx = [ctxOf(st, "textarea") EXCEPT
                              !.text = text, !.offset = offset, !.measured = sh]]

resizeInput(c, st, text) ==
    IF offsetWidthAt1000(c) # 0
    THEN LET offset == inputOffset(c)
             over == overflowAt0(c, text)
             r == correct(c, text, 0, Max(offset, over))
         IN  [st EXCEPT !.width = Px(r.width),
                        !.value = restoreValue(c, isEmpty(c, st.value), text),
                        !.ctx = [ctxOf(st, "visible") EXCEPT
                                   !.text = text, !.offset = offset,
                                   !.measured = over, !.rounds = r.rounds]]
    ELSE [st EXCEPT !.width = invisibleWidth(text),
                    !.value = restoreValue(c, isEmpty(c, st.value), text),
                    !.ctx = [ctxOf(st, "invisible") EXCEPT !.text = text]]

resizeSelect(c, st) ==
    IF st.selectedIndex = -1
    THEN [st EXCEPT !.ctx = ctxOf(st, "unselected")]
    ELSE LET index == IF st.selectedIndex > 0 THEN st.selectedIndex ELSE 0
             text == c.options[index + 1]
             d1 == insertProbe(st.doc)
             appearance == csGet(c.cs, appearanceName(c.cs, Len(c.cs)))
             pw == IF Probe \in d1 THEN probeOffsetWidth(c, text) ELSE 0
             w == IF pw > 0
                  THEN IF accountForArrow(appearance) THEN Calc(Px(pw)) ELSE Px(pw)
                  ELSE st.width
         IN  [st EXCEPT !.width = w,
                        !.doc = removeProbe(d1),
                        !.ctx = [ctxOf(st, "probe") EXCEPT
                                   !.text = text, !.measured = pw,
                                   !.appearance = appearance]]

\* resize(element) on the control in state st under filter selector f
resize(c, f, st) ==
    IF ~resizes(c, st.doc, f)
    THEN [st EXCEPT !.ctx = ctxOf(st, "ineligible")]
    ELSE IF isTextArea(c) THEN resizeTextArea(c, st, measuredText(c, st.value))
    ELSE IF isInput(c) THEN resizeInput(c, st, measuredText(c, st.value))
    ELSE IF isSelect(c) THEN resizeSelect(c, st)
    ELSE [st EXCEPT !.value = restoreValue(c, isEmpty(c, st.value),
                                           measuredText(c, st.value)),
                    !.ctx = ctxOf(st, "other")]

\* $$(selectors.base, root): the attached elements that match the base selector
queryBase(c, d) == IF "el" \in d /\ MatchesBase(c) THEN {"el"} ELSE {}

\* resizeAll over the element list els
resizeAll(c, f, st, els) ==
    IF "el" \in els /\ Matches(c, f) THEN resize(c, f, st) ELSE st

----------------------------------------------------------------------------
(* The controls and documents the model ranges over *)

Values == {"", "a", "abc"}
Placeholders == {"", "Search"}
BoxSizings == {"border-box", "padding-box", "content-box", "inherit"}

Default ==
    [nodeName |-> "div", type |-> "", hasSize |-> FALSE, cls |-> "",
     filterAttrs |-> <<"", "", "">>, placeholder |-> "",
     boxSizing |-> "content-box", rendered |-> TRUE,
     paddingTop |-> Px(0), paddingBottom |-> Px(0), minHeight |-> Px(0),
     offsetHeight0 |-> 0, clientHeight0 |-> 0, shEmpty |-> 0,
     offsetWidth0 |-> 0, clientWidth0 |-> 0, minWidth |-> Px(0),
     under |-> 0, step |-> 1000, deco |-> 0,
     options |-> << >>, cs |-> << >>]

\* text-area geometry: <<paddingTop, paddingBottom, offsetHeight and
\* clientHeight at height 0, scrollHeight at height 0 when empty>>
TextAreaGeometry ==
    {<<0, 0, 0, 0, 0>>, <<4, 4, 128, 8, 120>>, <<2, 6, 10, 8, 8>>}

TextAreas ==
    {[Default EXCEPT !.nodeName = "textarea", !.boxSizing = b, !.placeholder = p,
                     !.paddingTop = Px(g[1]), !.paddingBottom = Px(g[2]),
                     !.offsetHeight0 = g[3], !.clientHeight0 = g[4],
                     !.shEmpty = g[5], !.minHeight = Px(m)] :
        b \in BoxSizings, p \in Placeholders, g \in TextAreaGeometry, m \in {0, 30}}

\* input geometry: <<offsetWidth and clientWidth at width 0, min-width, what
\* scrollWidth under-reports at width 0, what one scrollLeft read reveals>>
InputGeometry ==
    {<<0, 0, 0, 0, 1000>>, <<6, 4, 0, 0, 1000>>, <<6, 4, 40, 20, 1>>,
     <<6, 4, 0, 20, 1>>, <<2, 0, 0, 4, 1>>, <<6, 4, 0, 8, 3>>}

InputShape(t, b, p, r, g) ==
    [Default EXCEPT !.nodeName = "input", !.type = t, !.boxSizing = b,
                    !.placeholder = p, !.rendered = r,
                    !.offsetWidth0 = g[1], !.deco = g[1], !.clientWidth0 = g[2],
                    !.minWidth = Px(g[3]), !.under = g[4], !.step = g[5]]

Inputs ==
    {InputShape("text", b, p, r, g) :
        b \in BoxSizings, p \in Placeholders, r \in BOOLEAN, g \in InputGeometry}
    \cup {InputShape(t, "border-box", p, r, <<6, 4, 0, 8, 3>>) :
        t \in {"", "tel", "checkbox"}, p \in Placeholders, r \in BOOLEAN}

ComputedStyles ==
    {<< >>,
     << <<"fontSize", "13px">>, <<"appearance", "none">> >>,
     << <<"appearance", "menulist">>, <<"width", "80px">> >>,
     << <<"fontSize", "13px">>, <<"webkitAppearance", "none">> >>,
     << <<"appearance", "">> >>}

OptionLists == {<< >>, <<"", "abc">>, <<"a", "abc">>}

SelectShape(z, r, o, s) ==
    [Default EXCEPT !.nodeName = "select", !.hasSize = z, !.rendered = r,
                    !.options = o, !.cs = s]

Selects ==
    {SelectShape(FALSE, r, o, s) :
        r \in BOOLEAN, o \in OptionLists, s \in ComputedStyles}
    \cup {SelectShape(TRUE, r, <<"a", "abc">>, << >>) : r \in BOOLEAN}

Controls == TextAreas \cup Inputs \cup Selects \cup {Default}

\* <<class of the control, data-filter of the script, data-stretchy-filter of
\* the last element that has one, data-stretchy-filter of the body>>
Pages ==
    {<<"", "", "", "">>, <<".stretchy", "", "", ".stretchy">>,
     <<"", "", ".stretchy", ".other">>}

----------------------------------------------------------------------------
(* State *)

Cur ==
    [value |-> value, selectedIndex |-> selectedIndex, width |-> width,
     height |-> height, doc |-> doc, ctx |-> NoCtx]

\* the control's state becomes st; again: the call of resize directly follows
\* another with nothing in between
Becomes(st, again) ==
    /\ value' = st.value
    /\ selectedIndex' = st.selectedIndex
    /\ width' = st.width
    /\ height' = st.height
    /\ doc' = st.doc
    /\ ctx' = [st.ctx EXCEPT !.again = again /\ st.ctx.ran]

Init ==
    /\ ctl \in {[c EXCEPT !.cls = p[1], !.filterAttrs = <<p[2], p[3], p[4]>>] :
                  c \in Controls, p \in Pages}
    /\ value = ""
    /\ selectedIndex = IF Len(ctl.options) > 0 THEN 0 ELSE -1
    /\ width = Unset
    /\ height = Unset
    /\ doc = {"body", "el"}
    /\ filter = "*"
    /\ active = TRUE
    /\ observer = FALSE
    /\ listening = FALSE
    /\ phase = "start"
    /\ ctx = NoCtx
    /\ last = "none"

----------------------------------------------------------------------------
(* Operations *)

\* a || b || c || d over strings: the first non-empty one
firstTruthy(a, b, c, d) ==
    IF a # "" THEN a ELSE IF b # "" THEN b ELSE IF c # "" THEN c ELSE d

initFilter(c, f) == firstTruthy(c.filterAttrs[1], c.filterAttrs[2], c.filterAttrs[3], f)

\* onChange(evt) with evt.target the control in state st
onChange(c, f, st) ==
    IF ~active THEN st
    ELSE IF MatchesBase(c) /\ Matches(c, f) THEN resize(c, f, st) ELSE st

\* the MutationObserver callback for a childList record that added els
onMutations(c, f, st, els) ==
    IF ~active THEN st ELSE resizeAll(c, f, st, els)

\* init(document)
init(op) ==
    /\ filter' = initFilter(ctl, filter)
    /\ listening' = TRUE
    /\ Becomes(resizeAll(ctl, filter', Cur, queryBase(ctl, doc)), FALSE)
    /\ observer' = TRUE
    /\ last' = op
    /\ UNCHANGED <<ctl, active>>

\* the script is evaluated with document.currentScript set
BootstrapScript ==
    /\ phase = "start"
    /\ phase' = "script"
    /\ init("load-script")

\* the file is imported as a module: nothing runs
BootstrapModule ==
    /\ phase = "start"
    /\ phase' = "module"
    /\ last' = "import"
    /\ ctx' = NoCtx
    /\ UNCHANGED <<ctl, value, selectedIndex, width, height, doc, filter, active,
                   observer, listening>>

\* DOMContentLoaded resolves ready, whose continuation runs init()
DOMContentLoaded ==
    /\ phase = "script"
    /\ phase' = "ready"
    /\ init("DOMContentLoaded")

\* the load listener of the window runs init()
WindowLoad ==
    /\ phase = "ready"
    /\ phase' = "loaded"
    /\ init("load")

CallInit ==
    /\ phase # "start"
    /\ init("init")
    /\ UNCHANGED phase

CallResize ==
    /\ phase # "start"
    /\ Becomes(resize(ctl, filter, Cur), ctx.ran)
    /\ last' = "resize"
    /\ UNCHANGED <<ctl, filter, active, observer, listening, phase>>

CallResizeAll ==
    /\ phase # "start"
    /\ Becomes(resizeAll(ctl, filter, Cur, queryBase(ctl, doc)), FALSE)
    /\ last' = "resizeAll"
    /\ UNCHANGED <<ctl, filter, active, observer, listening, phase>>

SetActive(isActive) ==
    /\ phase # "start"
    /\ active' = isActive
    /\ last' = "setActive"
    /\ ctx' = NoCtx
    /\ UNCHANGED <<ctl, value, selectedIndex, width, height, doc, filter,
                   observer, listening, phase>>

\* whether an event dispatched at the control reaches onChange on the root
Heard == listening /\ "el" \in doc

\* the user edits the text to v; the input event follows
UserInput(v) ==
    /\ isElementWithPlaceholder(ctl)
    /\ v # value
    /\ LET typed == [Cur EXCEPT !.value = v]
       IN  Becomes(IF Heard THEN onChange(ctl, filter, typed) ELSE typed, FALSE)
    /\ last' = "input"
    /\ UNCHANGED <<ctl, filter, active, observer, listening, phase>>

\* the selection moves to option i (-1: none); the change event follows
SelectOption(i) ==
    /\ isSelect(ctl)
    /\ i # selectedIndex
    /\ LET chosen == [Cur EXCEPT !.selectedIndex = i]
       IN  Becomes(IF Heard THEN onChange(ctl, filter, chosen) ELSE chosen, FALSE)
    /\ last' = "change"
    /\ UNCHANGED <<ctl, filter, active, observer, listening, phase>>

\* the control is inserted into the document; the observer reports it
Attach ==
    /\ "el" \notin doc
    /\ LET added == [Cur EXCEPT !.doc = doc \cup {"el"}]
       IN  Becomes(IF observer THEN onMutations(ctl, filter, added, {"el"})
                   ELSE added, FALSE)
    /\ last' = "mutation"
    /\ UNCHANGED <<ctl, filter, active, observer, listening, phase>>

\* the control is removed from the document; the record adds no node
Detach ==
    /\ "el" \in doc
    /\ LET removed == [Cur EXCEPT !.doc = doc \ {"el"}]
       IN  Becomes(IF observer THEN onMutations(ctl, filter, removed, {})
                   ELSE removed, FALSE)
    /\ last' = "removal"
    /\ UNCHANGED <<ctl, filter, active, observer, listening, phase>>

Next ==
    \/ BootstrapScript
    \/ BootstrapModule
    \/ DOMContentLoaded
    \/ WindowLoad
    \/ CallInit
    \/ CallResize
    \/ CallResizeAll
    \/ \E b \in BOOLEAN : SetActive(b)
    \/ \E v \in Values : UserInput(v)
    \/ \E i \in -1..(Len(ctl.options) - 1) : SelectOption(i)
    \/ Attach
    \/ Detach

Spec == Init /\ [][Next]_vars

----------------------------------------------------------------------------
(* Properties.  ctx holds the state the last call of resize started from. *)

\* resize was called on a control that passes the eligibility predicate
Eligible ==
    /\ ctx.ran
    /\ "el" \in ctx.docBefore
    /\ MatchesBase(ctl)
    /\ Matches(ctl, filter)

\* resize was called on a control that fails the eligibility predicate
Ineligible ==
    /\ ctx.ran
    /\ ("el" \notin ctx.docBefore \/ ~MatchesBase(ctl) \/ ~Matches(ctl, filter))

\* the text resize measured, from the value the call started with
TextBefore ==
    IF ctx.vBefore = "" /\ ctl.placeholder # "" THEN ctl.placeholder ELSE ctx.vBefore

HasText == ctl.nodeName \in {"textarea", "input"}

\* C1: resize on a control that fails the eligibility predicate (detached, or
\* not matching the base selector, or not matching the filter selector) leaves
\* its width, height and value, and the number of nodes of the document, as
\* they were.
C1_IneligibleNoOp ==
    Ineligible =>
        /\ value = ctx.vBefore
        /\ width = ctx.wBefore
        /\ height = ctx.hBefore
        /\ Cardinality(doc) = Cardinality(ctx.docBefore)

\* a sized control was detached and resize was called on it
C1_Witness ==
    /\ Ineligible
    /\ last = "resize"
    /\ "el" \notin ctx.docBefore
    /\ MatchesBase(ctl) /\ Matches(ctl, filter)
    /\ height # Unset

\* C2: for an eligible TextArea or SingleLineText control whose value is not
\* empty before resize, the value after resize equals the value before.
C2_NonEmptyValueKept ==
    (Eligible /\ HasText /\ ctx.vBefore # "") => value = ctx.vBefore

\* C3: for an eligible TextArea or SingleLineText control with an empty value
\* and a non-empty placeholder, the value is empty again when resize returns,
\* whichever sizing branch ran.
C3_PlaceholderRoundTrip ==
    (Eligible /\ HasText /\ ctx.vBefore = "" /\ ctl.placeholder # "") => value = ""

\* the placeholder was measured in the visible branch and the loop widened
C3_Witness ==
    /\ Eligible /\ isInput(ctl) /\ ctl.rendered
    /\ ctx.vBefore = "" /\ ctl.placeholder = "Search"
    /\ ctx.rounds > 0
    /\ value = ""

\* the sizing style of the control: height for a TextArea, width otherwise
Sizing(w, h) == IF isTextArea(ctl) THEN h ELSE w

\* C4: when resize is called twice in succession on an eligible control with
\* nothing else in between, the sizing style after the second call equals the
\* one after the first call.
C4_Idempotent ==
    (Eligible /\ ctx.again) => Sizing(width, height) = Sizing(ctx.wBefore, ctx.hBefore)

\* C5: no probe element is in the document after any operation, and resize on
\* a Selection control leaves the number of nodes unchanged; with no option
\* selected it leaves the width as it was.
C5_NoProbeLeak ==
    /\ Probe \notin doc
    /\ (ctx.ran /\ isSelect(ctl)) =>
          /\ Cardinality(doc) = Cardinality(ctx.docBefore)
          /\ (selectedIndex = -1 => width = ctx.wBefore)

\* the probe was inserted and measured without a positive offsetWidth
C5_Witness ==
    /\ Eligible /\ isSelect(ctl)
    /\ selectedIndex >= 0
    /\ ctx.branch = "probe"
    /\ ctx.measured = 0
    /\ doc = ctx.docBefore

\* the box-sizing offset of a TextArea as the specification states it
HeightOffset ==
    CASE ctl.boxSizing = "border-box" ->
            ctl.offsetHeight0 - ctl.paddingTop[2] - ctl.paddingBottom[2]
      [] ctl.boxSizing = "content-box" -> ctl.minHeight[2] - ctl.clientHeight0
      [] OTHER -> 0

\* C6: after resize on an eligible TextArea the height is the scrollHeight
\* read at height 0 plus the box-sizing offset, in px; border-box with 4px top
\* and bottom padding, scrollHeight 120 and offsetHeight 128 gives "240px".
C6_TextAreaHeight ==
    (Eligible /\ isTextArea(ctl)) =>
        /\ height = <<"px", scrollHeight(ctl, TextBefore) + HeightOffset>>
        /\ (/\ ctl.boxSizing = "border-box"
            /\ ctl.paddingTop = <<"px", 4>> /\ ctl.paddingBottom = <<"px", 4>>
            /\ ctl.offsetHeight0 = 128
            /\ scrollHeight(ctl, TextBefore) = 120) => height = <<"px", 240>>

\* the example of the specification was resized
C6_Witness ==
    /\ Eligible /\ isTextArea(ctl)
    /\ ctl.boxSizing = "border-box"
    /\ ctl.paddingTop = <<"px", 4>> /\ ctl.paddingBottom = <<"px", 4>>
    /\ ctl.offsetHeight0 = 128
    /\ ctx.measured = 120
    /\ height = <<"px", 240>>

\* the box-sizing offset of a SingleLineText as the specification states it
WidthOffset ==
    CASE ctl.boxSizing = "border-box" -> ctl.offsetWidth0
      [] ctl.boxSizing = "padding-box" -> ctl.clientWidth0
      [] ctl.boxSizing = "content-box" -> ctl.minWidth[2]
      [] OTHER -> 0

\* C7: after resize on an eligible SingleLineText that is rendered, the loop
\* ran at most 10 rounds, the width is in px and at least the box-sizing offset
\* and at least scrollWidth - clientWidth read at width 0, and either forcing
\* scrollLeft reads back 0 or the loop ran exactly 10 rounds.
C7_VisibleInput ==
    (Eligible /\ isInput(ctl) /\ offsetWidthAt1000(ctl) # 0) =>
        /\ ctx.rounds <= 10
        /\ width[1] = "px"
        /\ width[2] >= WidthOffset
        /\ width[2] >= overflowAt0(ctl, TextBefore)
        /\ (scrollLeftAt(ctl, TextBefore, width[2]) = 0 \/ ctx.rounds = 10)

\* the loop stopped at its cap with the content still overflowing
C7_Witness ==
    /\ Eligible /\ isInput(ctl) /\ offsetWidthAt1000(ctl) # 0
    /\ ctx.rounds = 10
    /\ scrollLeftAt(ctl, TextBefore, width[2]) # 0

\* C8: after resize on an eligible SingleLineText that is not rendered, the
\* loop did not run and the width is (length of the measured value + 1)ch; an
\* empty input with placeholder "Search" ends with width "7ch" and value "".
C8_InvisibleInput ==
    (Eligible /\ isInput(ctl) /\ offsetWidthAt1000(ctl) = 0) =>
        /\ width = <<"ch", Len(TextBefore) + 1>>
        /\ ctx.rounds = 0
        /\ (ctx.vBefore = "" /\ ctl.placeholder = "Search") =>
              (width = <<"ch", 7>> /\ value = "")

\* the example of the specification was resized
C8_Witness ==
    /\ Eligible /\ isInput(ctl) /\ offsetWidthAt1000(ctl) = 0
    /\ ctx.vBefore = "" /\ ctl.placeholder = "Search"
    /\ width = <<"ch", 7>> /\ value = ""

AutoTriggers == {"input", "change", "mutation", "load-script", "DOMContentLoaded", "load"}

\* C9: while the active flag is false, no automatic trigger (input/change
\* handler, observer callback, init passes) changes the width, height or value
\* of the control.
C9_DisabledGlobally ==
    (~active /\ last \in AutoTriggers /\ ctx.ran) =>
        /\ value = ctx.vBefore
        /\ width = ctx.wBefore
        /\ height = ctx.hBefore

\* the appearance value resize captured, and the text and width of its probe
Captured == csGet(ctl.cs, appearanceName(ctl.cs, Len(ctl.cs)))
OptionText == ctl.options[(IF selectedIndex > 0 THEN selectedIndex ELSE 0) + 1]
ProbeWidth == probeOffsetWidth(ctl, OptionText)

\* C10 as stated: the width is wrapped in calc() if and only if the captured
\* appearance value is present and not "none".
C10_ArrowIffPresent ==
    (Eligible /\ isSelect(ctl) /\ selectedIndex >= 0) =>
        /\ ProbeWidth > 0 =>
              width = <<(IF Captured \notin {Undefined, "", "none"}
                         THEN "calc" ELSE "px"), ProbeWidth>>
        /\ ProbeWidth <= 0 => width = ctx.wBefore

\* C10, amended: after resize on an eligible Selection with a selected option,
\* a positive probe offsetWidth becomes the width in px, wrapped in calc() if
\* and only if the captured appearance value is not "none" (an absent or empty
\* value is wrapped too); otherwise the width is left as it was.
C10_ArrowUnlessNone ==
    (Eligible /\ isSelect(ctl) /\ selectedIndex >= 0) =>
        /\ ProbeWidth > 0 =>
              width = <<(IF Captured # "none" THEN "calc" ELSE "px"), ProbeWidth>>
        /\ ProbeWidth <= 0 => width = ctx.wBefore

\* a Selection whose computed style has no appearance property was widened
C10_Witness ==
    /\ Eligible /\ isSelect(ctl) /\ selectedIndex >= 0
    /\ Captured = Undefined
    /\ ProbeWidth > 0
    /\ width = <<"calc", ProbeWidth>>

====
